---- MODULE Spec2Model ----
(***************************************************************************)
(* A model of the HMMRATAC command of MACS3 (MACS3/Commands/hmmratac_cmd.py) *)
(* and of the score-track behaviour pinned down by test/test_ScoreTrack.py.  *)
(*                                                                           *)
(* Spec        the pipeline run(), stages 4 and 5: train, label the hidden   *)
(*             states, predict, collapse the bins into intervals, build the  *)
(*             accessible regions; with the files each stage creates.        *)
(* SpecLabel   the labelling of the hidden states over bounded models.       *)
(* SpecScore   a score track under change_score_method and                   *)
(*             change_normalization_method.                                  *)
(* SpecPeaks   call_peaks on a scored track.                                 *)
(* SpecPileup  the pileup track built from weighted fragments.               *)
(* SpecRegions the training regions of stage 3 and the candidate regions of  *)
(*             stage 5.                                                      *)
(* SpecDup     stage 1: the fragment track, finalized and filtered.          *)
(*                                                                           *)
(* Array indices are 0-based in the code and 1-based in sequences here;      *)
(* hidden states and matrix entries keep the code's 0-based indices.         *)
(***************************************************************************)
EXTENDS Integers, Sequences, FiniteSets, TLC

VARIABLES
    pc,                    \* position of run() in the pipeline
    files,                 \* file name -> "absent" | "open" | "closed"
    failed,                \* the stage whose error aborted the run, or "none"
    hmm_model,             \* the trained model: [means, transmat]
    i_open_region,         \* hidden state labelled open
    i_background_region,   \* hidden state labelled background
    i_nucleosomal_region,  \* hidden state labelled nucleosomal
    candidate_bins,        \* sequence of [chrom, pos, region]
    predicted_proba,       \* per bin: hidden state 0..2 -> posterior
    states_bed,            \* the data rows written to <name>_states.bed
    accessible_regions,    \* list of [nuc, open, nuc] triples of tuples
    broadpeak,             \* records added to the BroadPeakIO
    raw,                   \* score track: the pileups as added (pos, treat, ctrl)
    track,                 \* score track: the columns and the selected methods
    bdg,                   \* peak calling: the scored segments and the arguments
    peaks,                 \* peak calling: the peaks returned
    fragments,             \* pileup: the weighted fragments of one chromosome
    pileup,                \* pileup: the (end position, value) pairs built
    options,               \* the options of the run that stages 1 and 3 read
    petrack,               \* stage 1: the fragment track handed to stage 2
    fc_bdg,                \* stage 3: the fold-change track of one chromosome
    training_regions,      \* stage 3: the final training regions
    candidate_regions      \* stage 5: the final candidate regions

pipeVars == <<pc, files, failed, hmm_model, i_open_region,
              i_background_region, i_nucleosomal_region, candidate_bins,
              predicted_proba, states_bed, accessible_regions, broadpeak>>

scoreVars == <<raw, track>>
peakVars == <<bdg, peaks>>
pileupVars == <<fragments, pileup>>
runVars == <<options, petrack, fc_bdg, training_regions, candidate_regions>>

vars == <<pipeVars, scoreVars, peakVars, pileupVars, runVars>>

\* the value of a variable no action of the specification at hand uses
Idle == "idle"

----------------------------------------------------------------------------
(* Bounds of the model *)

\* most bins over all candidate regions
MaxBins == 6
\* most candidate regions
MaxRegions == 2
\* options.hmm_binsize
BinSize == 10
\* distance between two merged candidate regions of one chromosome
RegionGap == 20

----------------------------------------------------------------------------
(* Helpers *)

RECURSIVE SumSeq(_)
SumSeq(s) == IF s = <<>> THEN 0 ELSE Head(s) + SumSeq(Tail(s))

\* "%s" % n  and  str(n)  for a non-negative integer: its decimal digits
RECURSIVE Str(_)
Str(n) == IF n < 10 THEN <<n>> ELSE Str(n \div 10) \o <<n % 10>>

\* int(s) for a string of decimal digits
RECURSIVE Int_(_)
Int_(s) == IF Len(s) = 1 THEN s[1]
           ELSE 10 * Int_(SubSeq(s, 1, Len(s) - 1)) + s[Len(s)]

States == 0..2
Channels == 0..3

----------------------------------------------------------------------------
(* Stage 4: labelling the hidden states of the trained model *)

\* np.where(m == v)[0][0]: the first row holding v in any column
FirstRowWith(m, cols, v) ==
    CHOOSE r \in States :
        /\ \E c \in cols : m[r][c] = v
        /\ \A q \in States : q < r => \A c \in cols : m[q][c] # v

MaxOf(S) == CHOOSE x \in S : \A y \in S : y <= x
MinOf(S) == CHOOSE x \in S : \A y \in S : x <= y

\* i_open_region = np.where(means_ == max(means_[0:3,0]))[0][0]
OpenRegion(means) ==
    FirstRowWith(means, Channels, MaxOf({means[s][0] : s \in States}))

\* i_background_region =
\*    np.where(transmat_ == min(transmat_[0:3, i_open_region]))[0][0]
BackgroundRegion(transmat, iopen) ==
    FirstRowWith(transmat, States, MinOf({transmat[s][iopen] : s \in States}))

\* i_nucleosomal_region = list(set([0,1,2]) - set([i_open, i_background]))[0]
NucleosomalRegion(iopen, ibg) == MinOf(States \ {iopen, ibg})

Mat(rows) == [r \in 0..(Len(rows) - 1) |->
                 [c \in 0..(Len(rows[r + 1]) - 1) |-> rows[r + 1][c + 1]]]

\* the models hmm_training hands to the pipeline (transition entries in tenths)
HmmModels ==
    { [means |-> Mat(<< <<5, 1, 1, 0>>, <<2, 4, 2, 1>>, <<0, 0, 0, 0>> >>),
       transmat |-> Mat(<< <<7, 2, 1>>, <<2, 6, 2>>, <<0, 3, 7>> >>)],
      [means |-> Mat(<< <<1, 3, 2, 1>>, <<0, 0, 0, 0>>, <<6, 1, 1, 0>> >>),
       transmat |-> Mat(<< <<6, 1, 3>>, <<2, 8, 0>>, <<3, 1, 6>> >>)] }

NoModel == [means |-> <<>>, transmat |-> <<>>]

----------------------------------------------------------------------------
(* Stage 5: candidate bins and prediction *)

Chroms == <<"chr1", "X">>

\* region layouts: each region is on the chromosome of its predecessor or on
\* the next one, and holds at least one bin
RegionShapes ==
    UNION { [1..k -> [newchrom : BOOLEAN, nbins : 1..MaxBins]] : k \in 0..MaxRegions }

ChromIdx(shape, k) == 1 + Cardinality({j \in 2..k : shape[j].newchrom})

RECURSIVE RegionStart(_, _)
RegionStart(shape, k) ==
    IF k = 1 \/ shape[k].newchrom THEN 0
    ELSE RegionStart(shape, k - 1) + shape[k - 1].nbins * BinSize + RegionGap

GoodShape(shape) ==
    /\ SumSeq([k \in 1..Len(shape) |-> shape[k].nbins]) <= MaxBins
    /\ Len(shape) > 0 => ~shape[1].newchrom
    /\ Len(shape) > 0 => ChromIdx(shape, Len(shape)) <= Len(Chroms)

\* merged candidate regions: sorted, disjoint and not abutting
CandidateRegions(shape) ==
    [k \in 1..Len(shape) |->
        [chrom |-> Chroms[ChromIdx(shape, k)],
         start |-> RegionStart(shape, k),
         end   |-> RegionStart(shape, k) + shape[k].nbins * BinSize]]

\* extract_signals_from_regions: the bins of each region in order, each
\* keyed by (chromosome, position)
RECURSIVE BinsOfRegions(_, _)
BinsOfRegions(regions, k) ==
    IF k > Len(regions) THEN <<>>
    ELSE [b \in 1..((regions[k].end - regions[k].start) \div BinSize) |->
             [chrom  |-> regions[k].chrom,
              pos    |-> regions[k].start + (b - 1) * BinSize,
              region |-> k]]
         \o BinsOfRegions(regions, k + 1)

Vec(t) == [s \in States |-> t[s + 1]]

\* posteriors in quarters; each sums to one
ProbaVecs == {Vec(<<2, 1, 1>>), Vec(<<1, 2, 1>>), Vec(<<1, 1, 2>>)}

labels_list == <<"open", "nuc", "bg">>

\* np.argmax: the first index holding the maximum
ArgMax(p) ==
    CHOOSE i \in 1..Len(p) :
        /\ \A j \in 1..Len(p) : p[j] <= p[i]
        /\ \A j \in 1..(i - 1) : p[j] < p[i]

\* proba = [pp[i_open], pp[i_nucleosomal], pp[i_background]];
\* label = labels_list[np.argmax(proba)]
LabelOf(pp, io, inuc, ibg) == labels_list[ArgMax(<<pp[io], pp[inuc], pp[ibg]>>)]

----------------------------------------------------------------------------
(* Stage 5: collapsing the bins into the rows of <name>_states.bed *)

Row(chrom, start, end, label) ==
    [chrom |-> chrom, start |-> Str(start), end |-> Str(end), label |-> label]

\* the mutant ends a closed interval at the end of the bin that opened the
\* next one
CollapseEndMutant(bins, l) == bins[l + 1].pos + BinSize

\* end_pos = candidate_bins[l-1][1] + options.hmm_binsize
CollapseEnd(bins, l) == bins[l].pos + BinSize

\* the loop body for l (0-based) of range(1, len(predicted_proba))
RECURSIVE Collapse(_, _, _, _, _)
Collapse(bins, lab, l, start_pos, out) ==
    IF l > Len(lab) - 1 THEN out
    ELSE LET label_prev == lab[l]
             label_curr == lab[l + 1]
         IN IF label_prev # label_curr
            THEN Collapse(bins, lab, l + 1, bins[l + 1].pos,
                     Append(out, Row(bins[l + 1].chrom, start_pos,
                                     CollapseEnd(bins, l), label_prev)))
            ELSE IF l = Len(lab) - 1
            THEN Collapse(bins, lab, l + 1, start_pos,
                     Append(out, Row(bins[l + 1].chrom, start_pos,
                                     bins[l + 1].pos + BinSize, label_prev)))
            ELSE Collapse(bins, lab, l + 1, start_pos, out)

Labels(bins, pp, io, inuc, ibg) ==
    [l \in 1..Len(pp) |-> LabelOf(pp[l], io, inuc, ibg)]

----------------------------------------------------------------------------
(* Stage 5: accessible regions *)

Tuple(row) == <<row.chrom, Int_(row.start), Int_(row.end), row.label>>

\* the mutant accepts any interval to the right of nuc, open
IsTripletMutant(rows, i) ==
    rows[i].label = "nuc" /\ rows[i + 1].label = "open"

\* cleaned_data[i][3] == 'nuc' and cleaned_data[i+1][3] == 'open'
\*   and cleaned_data[i+2][3] == 'nuc'   (i is 1-based here)
IsTriplet(rows, i) ==
    rows[i].label = "nuc" /\ rows[i + 1].label = "open" /\ rows[i + 2].label = "nuc"

RECURSIVE Triplets(_, _)
Triplets(rows, i) ==
    IF i > Len(rows) - 2 THEN <<>>
    ELSE (IF IsTriplet(rows, i)
          THEN << <<Tuple(rows[i]), Tuple(rows[i + 1]), Tuple(rows[i + 2])>> >>
          ELSE <<>>)
         \o Triplets(rows, i + 1)

\* np.genfromtxt gives a one-row file as a 1-D array of its four fields:
\* len() is 4, i runs over 0 and 1, and cleaned_data[i][3] is the fourth
\* character of the chromosome name (i = 0) and of the start field (i = 1);
\* a field of fewer than four characters raises IndexError.
OneRowRaises(rows) == Len(rows[1].chrom) < 4 \/ Len(rows[1].start) < 4

\* the mutant takes the blocks from the flanks
BlockIndexMutant(region) == {0, Len(region) - 1}

\* for j in range(1, len(accessible_regions[i]) - 1)   (0-based j)
BlockIndex(region) == 1..(Len(region) - 2)

SetToSeq(S) ==
    LET RECURSIVE Build(_)
        Build(T) == IF T = {} THEN <<>>
                    ELSE LET m == MinOf(T) IN <<m>> \o Build(T \ {m})
    IN Build(S)

BlockSizes(region) ==
    LET js == SetToSeq(BlockIndex(region))
    IN [n \in 1..Len(js) |-> Str(region[js[n] + 1][3] - region[js[n] + 1][2])]

BlockStarts(region) ==
    LET js == SetToSeq(BlockIndex(region))
    IN [n \in 1..Len(js) |-> Str(region[js[n] + 1][2])]

\* the arguments of broadpeak.add for one accessible region
BroadPeak(region) ==
    [chrom       |-> region[2][1],
     start       |-> region[1][2],
     end         |-> region[Len(region)][3],
     thickStart  |-> Str(region[2][2]),
     thickEnd    |-> Str(region[Len(region) - 1][3]),
     blockNum    |-> Len(region) \div 3,
     blockSizes  |-> BlockSizes(region),
     blockStarts |-> BlockStarts(region)]

----------------------------------------------------------------------------
(* The pipeline run() *)

FileNames == {"training_data", "training_lens", "model", "predicted",
              "states", "gapped"}

Init ==
    /\ pc = "extract_training"
    /\ files = [f \in FileNames |-> "absent"]
    /\ failed = "none"
    /\ hmm_model = NoModel
    /\ i_open_region = -1
    /\ i_background_region = -1
    /\ i_nucleosomal_region = -1
    /\ candidate_bins = <<>>
    /\ predicted_proba = <<>>
    /\ states_bed = <<>>
    /\ accessible_regions = <<>>
    /\ broadpeak = <<>>
    /\ raw = Idle /\ track = Idle
    /\ bdg = Idle /\ peaks = Idle
    /\ fragments = Idle /\ pileup = Idle
    /\ options = Idle /\ petrack = Idle /\ fc_bdg = Idle
    /\ training_regions = Idle /\ candidate_regions = Idle

\* lines 189-199: extract the training signals, then write them
ExtractTraining ==
    /\ pc = "extract_training"
    /\ files' = [files EXCEPT !["training_data"] = "closed",
                              !["training_lens"] = "closed"]
    /\ pc' = "train"
    /\ UNCHANGED <<failed, hmm_model, i_open_region, i_background_region,
                   i_nucleosomal_region, candidate_bins, predicted_proba,
                   states_bed, accessible_regions, broadpeak>>
    /\ UNCHANGED <<scoreVars, peakVars, pileupVars, runVars>>

\* line 202: hmm_training raises (a singular covariance)
TrainFails ==
    /\ pc = "train"
    /\ pc' = "aborted"
    /\ failed' = "train"
    /\ UNCHANGED <<files, hmm_model, i_open_region, i_background_region,
                   i_nucleosomal_region, candidate_bins, predicted_proba,
                   states_bed, accessible_regions, broadpeak>>
    /\ UNCHANGED <<scoreVars, peakVars, pileupVars, runVars>>

\* lines 202-219: train, label the hidden states, dump the model
Train ==
    /\ pc = "train"
    /\ \E m \in HmmModels :
         LET io == OpenRegion(m.means)
             ibg == BackgroundRegion(m.transmat, io)
         IN /\ hmm_model' = m
            /\ i_open_region' = io
            /\ i_background_region' = ibg
            /\ i_nucleosomal_region' = NucleosomalRegion(io, ibg)
    /\ files' = [files EXCEPT !["model"] = "closed"]
    /\ pc' = "predict"
    /\ UNCHANGED <<failed, candidate_bins, predicted_proba, states_bed,
                   accessible_regions, broadpeak>>
    /\ UNCHANGED <<scoreVars, peakVars, pileupVars, runVars>>

\* lines 226-249 with no candidate bin: hmm_predict raises on the empty input
PredictFails ==
    /\ pc = "predict"
    /\ pc' = "aborted"
    /\ failed' = "predict"
    /\ UNCHANGED <<files, hmm_model, i_open_region, i_background_region,
                   i_nucleosomal_region, candidate_bins, predicted_proba,
                   states_bed, accessible_regions, broadpeak>>
    /\ UNCHANGED <<scoreVars, peakVars, pileupVars, runVars>>

\* lines 226-258: the candidate bins, their posteriors, <name>_predicted.txt
Predict ==
    /\ pc = "predict"
    /\ \E shape \in RegionShapes :
         /\ GoodShape(shape)
         /\ LET bins == BinsOfRegions(CandidateRegions(shape), 1)
            IN /\ candidate_bins' = bins
               /\ \E pp \in [1..Len(bins) -> ProbaVecs] : predicted_proba' = pp
    /\ files' = [files EXCEPT !["predicted"] = "closed"]
    /\ pc' = "collapse"
    /\ UNCHANGED <<failed, hmm_model, i_open_region, i_background_region,
                   i_nucleosomal_region, states_bed, accessible_regions,
                   broadpeak>>
    /\ UNCHANGED <<scoreVars, peakVars, pileupVars, runVars>>

\* lines 261-263 with no bin: the file is opened, its header written, and
\* candidate_bins[0] raises IndexError
CollapseFails ==
    /\ pc = "collapse"
    /\ Len(candidate_bins) = 0
    /\ files' = [files EXCEPT !["states"] = "open"]
    /\ pc' = "aborted"
    /\ failed' = "collapse"
    /\ UNCHANGED <<hmm_model, i_open_region, i_background_region,
                   i_nucleosomal_region, candidate_bins, predicted_proba,
                   states_bed, accessible_regions, broadpeak>>
    /\ UNCHANGED <<scoreVars, peakVars, pileupVars, runVars>>

\* lines 261-276
CollapseStates ==
    /\ pc = "collapse"
    /\ Len(candidate_bins) > 0
    /\ states_bed' =
         Collapse(candidate_bins,
                  Labels(candidate_bins, predicted_proba, i_open_region,
                         i_nucleosomal_region, i_background_region),
                  1, candidate_bins[1].pos, <<>>)
    /\ files' = [files EXCEPT !["states"] = "closed"]
    /\ pc' = "accessible"
    /\ UNCHANGED <<failed, hmm_model, i_open_region, i_background_region,
                   i_nucleosomal_region, candidate_bins, predicted_proba,
                   accessible_regions, broadpeak>>
    /\ UNCHANGED <<scoreVars, peakVars, pileupVars, runVars>>

\* lines 279-287 on a one-row file whose fields are too short
AccessibleFails ==
    /\ pc = "accessible"
    /\ Len(states_bed) = 1
    /\ OneRowRaises(states_bed)
    /\ pc' = "aborted"
    /\ failed' = "accessible"
    /\ UNCHANGED <<files, hmm_model, i_open_region, i_background_region,
                   i_nucleosomal_region, candidate_bins, predicted_proba,
                   states_bed, accessible_regions, broadpeak>>
    /\ UNCHANGED <<scoreVars, peakVars, pileupVars, runVars>>

\* lines 279-313
AccessibleRegions ==
    /\ pc = "accessible"
    /\ ~(Len(states_bed) = 1 /\ OneRowRaises(states_bed))
    /\ LET regions == IF Len(states_bed) = 1 THEN <<>>
                      ELSE Triplets(states_bed, 1)
       IN /\ accessible_regions' = regions
          /\ broadpeak' = [i \in 1..Len(regions) |-> BroadPeak(regions[i])]
    /\ files' = [files EXCEPT !["gapped"] = "open"]
    /\ pc' = "done"
    /\ UNCHANGED <<failed, hmm_model, i_open_region, i_background_region,
                   i_nucleosomal_region, candidate_bins, predicted_proba,
                   states_bed>>
    /\ UNCHANGED <<scoreVars, peakVars, pileupVars, runVars>>

Next ==
    \/ ExtractTraining
    \/ TrainFails
    \/ Train
    \/ PredictFails
    \/ Predict
    \/ CollapseFails
    \/ CollapseStates
    \/ AccessibleFails
    \/ AccessibleRegions

Spec == Init /\ [][Next]_vars

----------------------------------------------------------------------------
(* SpecLabel: the labelling of lines 204-207 over every bounded model *)

\* largest entry of a means matrix
MaxMean == 2
\* transition probabilities are multiples of 1 / TransUnit
TransUnit == 3

Injective(f) == \A a, b \in DOMAIN f : a # b => f[a] # f[b]

\* means: channels 0 and 1 range over 0..MaxMean, channels 2 and 3 are 0;
\* the channel-0 means of the three states differ
MeansMatrices ==
    {[s \in States |-> [c \in Channels |->
          IF c = 0 THEN c0[s] ELSE IF c = 1 THEN c1[s] ELSE 0]] :
        c0 \in {f \in [States -> 0..MaxMean] : Injective(f)},
        c1 \in [States -> 0..MaxMean]}

StochasticRows ==
    {r \in [States -> 0..TransUnit] : r[0] + r[1] + r[2] = TransUnit}

\* row-stochastic 3x3 matrices; the probabilities out of one state differ,
\* and so do those into one state
TransMatrices ==
    {t \in [States -> {r \in StochasticRows : Injective(r)}] :
        \A c \in States : Injective([s \in States |-> t[s][c]])}

InitLabel ==
    /\ pc = "label"
    /\ files = [f \in FileNames |-> "absent"]
    /\ failed = "none"
    /\ hmm_model \in [means : MeansMatrices, transmat : TransMatrices]
    /\ i_open_region = -1
    /\ i_background_region = -1
    /\ i_nucleosomal_region = -1
    /\ candidate_bins = <<>>
    /\ predicted_proba = <<>>
    /\ states_bed = <<>>
    /\ accessible_regions = <<>>
    /\ broadpeak = <<>>
    /\ raw = Idle /\ track = Idle
    /\ bdg = Idle /\ peaks = Idle
    /\ fragments = Idle /\ pileup = Idle
    /\ options = Idle /\ petrack = Idle /\ fc_bdg = Idle
    /\ training_regions = Idle /\ candidate_regions = Idle

\* lines 204-207
LabelHiddenStates ==
    /\ pc = "label"
    /\ LET io == OpenRegion(hmm_model.means)
           ibg == BackgroundRegion(hmm_model.transmat, io)
       IN /\ i_open_region' = io
          /\ i_background_region' = ibg
          /\ i_nucleosomal_region' = NucleosomalRegion(io, ibg)
    /\ pc' = "labelled"
    /\ UNCHANGED <<files, failed, hmm_model, candidate_bins, predicted_proba,
                   states_bed, accessible_regions, broadpeak>>
    /\ UNCHANGED <<scoreVars, peakVars, pileupVars, runVars>>

NextLabel == LabelHiddenStates

SpecLabel == InitLabel /\ [][NextLabel]_vars

----------------------------------------------------------------------------
(* SpecScore: the score track of test_ScoreTrack.py (scoreTrackII) *)

\* values are kept in hundredths (the tests compare two decimals)
Scale == 100
treat_edm == 10
ctrl_edm == 5

\* (chromosome chrY) end position, treatment pileup, control pileup
test_regions1 ==
    << [pos |-> 10,  treat |-> 100, ctrl |-> 10],
       [pos |-> 60,  treat |-> 10,  ctrl |-> 10],
       [pos |-> 110, treat |-> 15,  ctrl |-> 20],
       [pos |-> 160, treat |-> 5,   ctrl |-> 20],
       [pos |-> 210, treat |-> 20,  ctrl |-> 5] >>

\* expected columns of the tests, in hundredths
d_result == <<9000, 0, -500, -1500, 1500>>
m_result == <<1000, 100, 150, 50, 200>>
norm_T == [treat |-> <<10000, 1000, 1500, 500, 2000>>,
           ctrl  |-> <<2000, 2000, 4000, 4000, 1000>>]
norm_C == [treat |-> <<5000, 500, 750, 250, 1000>>,
           ctrl  |-> <<1000, 1000, 2000, 2000, 500>>]
norm_M == [treat |-> <<1000, 100, 150, 50, 200>>,
           ctrl  |-> <<200, 200, 400, 400, 100>>]
norm_N == [treat |-> <<10000, 1000, 1500, 500, 2000>>,
           ctrl  |-> <<1000, 1000, 2000, 2000, 500>>]

\* longest drawn track
MaxTrackLen == 2
PileupValues == {5, 10, 20}

\* drawn tracks: end positions as in the test, 50 apart
DrawnTracks ==
    UNION {[1..n -> [pos : {0}, treat : PileupValues, ctrl : PileupValues]] :
              n \in 1..MaxTrackLen}

Positioned(t) == [i \in 1..Len(t) |-> [t[i] EXCEPT !.pos = 10 + 50 * (i - 1)]]

ScoreMethods == {"d", "m"}
NormMethods == {"T", "C", "M", "N"}

\* the treatment column under a normalization: T and N leave it, C scales
\* it to the control depth, M to one million
NormTreat(t, n) ==
    CASE n = "C" -> (t * ctrl_edm) \div treat_edm
      [] n = "M" -> t \div treat_edm
      [] OTHER   -> t

\* the control column under a normalization: C and N leave it, T scales
\* it to the treatment depth, M to one million
NormCtrl(c, n) ==
    CASE n = "T" -> (c * treat_edm) \div ctrl_edm
      [] n = "M" -> c \div ctrl_edm
      [] OTHER   -> c

\* the mutant takes method m for the maximum of treatment and control
ScoreMMutant(t, c) == IF t >= c THEN t ELSE c

\* method m: the treatment pileup per million, treat / treat_edm
ScoreM(t, c) == t \div treat_edm

\* the score of one bin from its raw pileups t and c (in hundredths)
ScoreOf(method, norm, t, c) ==
    CASE method = "d" -> NormTreat(t, norm) - NormCtrl(c, norm)
      [] method = "m" -> ScoreM(t, c)
      [] OTHER        -> 0

\* a track as built by add(): raw values, no score, no normalization
Fresh(r) ==
    [pos    |-> [i \in 1..Len(r) |-> r[i].pos],
     treat  |-> [i \in 1..Len(r) |-> r[i].treat * Scale],
     ctrl   |-> [i \in 1..Len(r) |-> r[i].ctrl * Scale],
     score  |-> [i \in 1..Len(r) |-> 0],
     scoring_method       |-> "N",
     normalization_method |-> "N"]

Columns(r, method, norm) ==
    [treat |-> [i \in 1..Len(r) |-> NormTreat(r[i].treat * Scale, norm)],
     ctrl  |-> [i \in 1..Len(r) |-> NormCtrl(r[i].ctrl * Scale, norm)],
     score |-> [i \in 1..Len(r) |->
                  ScoreOf(method, norm, r[i].treat * Scale, r[i].ctrl * Scale)]]

\* the mutant rescales the columns it holds and leaves the score as it was
ChangeNormalizationMutant(tr, r, n) ==
    [tr EXCEPT !.normalization_method = n,
               !.treat = [i \in 1..Len(r) |-> NormTreat(tr.treat[i], n)],
               !.ctrl  = [i \in 1..Len(r) |-> NormCtrl(tr.ctrl[i], n)]]

\* change_normalization_method: the columns are derived anew from the raw
\* pileups r
ChangeNormalization(tr, r, n) ==
    LET c == Columns(r, tr.scoring_method, n)
    IN [tr EXCEPT !.normalization_method = n,
                  !.treat = c.treat, !.ctrl = c.ctrl, !.score = c.score]

\* change_score_method: the score is derived anew from the raw pileups r
ChangeScore(tr, r, m) ==
    [tr EXCEPT !.scoring_method = m,
               !.score = Columns(r, m, tr.normalization_method).score]

InitScore ==
    /\ raw \in {test_regions1} \cup {Positioned(t) : t \in DrawnTracks}
    /\ track = Fresh(raw)
    /\ pc = Idle /\ files = Idle /\ failed = Idle /\ hmm_model = Idle
    /\ i_open_region = Idle /\ i_background_region = Idle
    /\ i_nucleosomal_region = Idle /\ candidate_bins = Idle
    /\ predicted_proba = Idle /\ states_bed = Idle
    /\ accessible_regions = Idle /\ broadpeak = Idle
    /\ bdg = Idle /\ peaks = Idle
    /\ fragments = Idle /\ pileup = Idle
    /\ options = Idle /\ petrack = Idle /\ fc_bdg = Idle
    /\ training_regions = Idle /\ candidate_regions = Idle

change_score_method ==
    /\ \E m \in ScoreMethods : track' = ChangeScore(track, raw, m)
    /\ UNCHANGED <<raw, pipeVars, peakVars, pileupVars, runVars>>

change_normalization_method ==
    /\ \E n \in NormMethods : track' = ChangeNormalization(track, raw, n)
    /\ UNCHANGED <<raw, pipeVars, peakVars, pileupVars, runVars>>

NextScore ==
    \/ change_score_method
    \/ change_normalization_method

SpecScore == InitScore /\ [][NextScore]_vars

----------------------------------------------------------------------------
(* SpecPeaks: call_peaks on a scored track of one chromosome *)

\* up_limit when none is given: no score exceeds it
NoUpLimit == 1000000000

\* the test track scored by method p: end position and -log10 p-value in
\* hundred-thousandths, with the arguments of test_callpeak
p_track ==
    [segs |-> << [end |-> 10,  score |-> 6048912],
                 [end |-> 60,  score |-> 37599],
                 [end |-> 110, score |-> 7723],
                 [end |-> 160, score |-> 6],
                 [end |-> 210, score |-> 640804] >>,
     cutoff |-> 10000, min_length |-> 10, max_gap |-> 10,
     up_limit |-> NoUpLimit]

\* the peaks test_callpeak expects
peak1 == << [start |-> 0,   end |-> 60,  score |-> 6048912],
            [start |-> 160, end |-> 210, score |-> 640804] >>

\* most segments of a drawn track
MaxSegs == 3
SegLens == {5, 20}
SegScores == 0..3

RECURSIVE EndsOf(_)
EndsOf(lens) ==
    IF lens = <<>> THEN <<>>
    ELSE LET front == EndsOf(SubSeq(lens, 1, Len(lens) - 1))
         IN Append(front, (IF front = <<>> THEN 0 ELSE front[Len(front)])
                          + lens[Len(lens)])

DrawnSegs ==
    UNION {{[i \in 1..n |-> [end |-> EndsOf(l)[i], score |-> sc[i]]] :
               l \in [1..n -> SegLens], sc \in [1..n -> SegScores]} :
           n \in 1..MaxSegs}

DrawnBdgs ==
    [segs : DrawnSegs, cutoff : {1, 2}, min_length : {10, 30},
     max_gap : {5, 20}, up_limit : {2, NoUpLimit}]

SegStart(segs, i) == IF i = 1 THEN 0 ELSE segs[i - 1].end

\* a segment is above when cutoff <= score <= up_limit
IsAbove(b, i) ==
    b.segs[i].score >= b.cutoff /\ b.segs[i].score <= b.up_limit

\* the mutant merges only across gaps shorter than max_gap
WithinGapMutant(b, last, i) == SegStart(b.segs, i) - b.segs[last].end < b.max_gap

\* the next above segment joins the run when the gap is <= max_gap
WithinGap(b, last, i) == SegStart(b.segs, i) - b.segs[last].end <= b.max_gap

\* the mutant keeps only the runs longer than min_length
LongEnoughMutant(b, s, e) == e - s > b.min_length

\* a run is kept unless it is shorter than min_length
LongEnough(b, s, e) == e - s >= b.min_length

\* close the run held in content (segment indices): report it from its
\* first start to its last end with its largest score
ClosePeak(b, content, out) ==
    IF content = <<>> THEN out
    ELSE LET s == SegStart(b.segs, content[1])
             e == b.segs[content[Len(content)]].end
         IN IF LongEnough(b, s, e)
            THEN Append(out, [start |-> s, end |-> e,
                              score |-> MaxOf({b.segs[content[k]].score :
                                                 k \in 1..Len(content)})])
            ELSE out

\* one pass over the segments from i on
RECURSIVE SweepPeaks(_, _, _, _)
SweepPeaks(b, i, content, out) ==
    IF i > Len(b.segs) THEN ClosePeak(b, content, out)
    ELSE IF ~IsAbove(b, i) THEN SweepPeaks(b, i + 1, content, out)
    ELSE IF content = <<>> THEN SweepPeaks(b, i + 1, <<i>>, out)
    ELSE IF WithinGap(b, content[Len(content)], i)
         THEN SweepPeaks(b, i + 1, Append(content, i), out)
    ELSE SweepPeaks(b, i + 1, <<i>>, ClosePeak(b, content, out))

call_peaks(b) == SweepPeaks(b, 1, <<>>, <<>>)

InitPeaks ==
    /\ bdg \in {p_track} \cup DrawnBdgs
    /\ peaks = [called |-> FALSE, list |-> <<>>]
    /\ pc = Idle /\ files = Idle /\ failed = Idle /\ hmm_model = Idle
    /\ i_open_region = Idle /\ i_background_region = Idle
    /\ i_nucleosomal_region = Idle /\ candidate_bins = Idle
    /\ predicted_proba = Idle /\ states_bed = Idle
    /\ accessible_regions = Idle /\ broadpeak = Idle
    /\ raw = Idle /\ track = Idle
    /\ fragments = Idle /\ pileup = Idle
    /\ options = Idle /\ petrack = Idle /\ fc_bdg = Idle
    /\ training_regions = Idle /\ candidate_regions = Idle

CallPeaks ==
    /\ ~peaks.called
    /\ peaks' = [called |-> TRUE, list |-> call_peaks(bdg)]
    /\ UNCHANGED <<bdg, pipeVars, scoreVars, pileupVars, runVars>>

NextPeaks == CallPeaks

SpecPeaks == InitPeaks /\ [][NextPeaks]_vars

----------------------------------------------------------------------------
(* SpecPileup: the pileup track built from the fragments of one chromosome *)

\* most fragments on the chromosome
MaxFrags == 3
Positions == {0, 70, 80, 150}
Weights == {1, 2}

Fragments ==
    {f \in [start : Positions, end : Positions, weight : Weights] :
        f.start < f.end}

\* the abutting fragments (0,70), (70,80), (80,150) of weight 1
abutting == << [start |-> 0,  end |-> 70,  weight |-> 1],
               [start |-> 70, end |-> 80,  weight |-> 1],
               [start |-> 80, end |-> 150, weight |-> 1] >>

\* per fragment +weight at its start and -weight at its end
RECURSIVE EventsOf(_)
EventsOf(frags) ==
    IF frags = <<>> THEN <<>>
    ELSE << [pos |-> Head(frags).start, delta |-> Head(frags).weight],
            [pos |-> Head(frags).end,   delta |-> 0 - Head(frags).weight] >>
         \o EventsOf(Tail(frags))

\* by position, decrements before increments at one position
EventBefore(a, b) ==
    a.pos < b.pos \/ (a.pos = b.pos /\ a.delta < 0 /\ b.delta > 0)

RECURSIVE InsertEvent(_, _)
InsertEvent(e, sorted) ==
    IF sorted = <<>> THEN <<e>>
    ELSE IF EventBefore(e, Head(sorted)) THEN <<e>> \o sorted
    ELSE <<Head(sorted)>> \o InsertEvent(e, Tail(sorted))

RECURSIVE SortEvents(_)
SortEvents(ev) ==
    IF ev = <<>> THEN <<>> ELSE InsertEvent(Head(ev), SortEvents(Tail(ev)))

\* the mutant closes a run at every position that holds an event
ValueChangedMutant(pos, run_v, cur) == pos > 0

\* the run that ends at pos is closed when the running value changed there
ValueChanged(pos, run_v, cur) == pos > 0 /\ cur # run_v

ClosePileupRun(pos, run_v, cur, out) ==
    IF ValueChanged(pos, run_v, cur)
    THEN Append(out, [end |-> pos, value |-> run_v])
    ELSE out

\* the sweep over the sorted events from the k-th on: pos is the position of
\* the events being applied, run_v the value before them, cur the running
\* value
RECURSIVE SweepEvents(_, _, _, _, _, _)
SweepEvents(ev, k, pos, run_v, cur, out) ==
    IF k > Len(ev) THEN ClosePileupRun(pos, run_v, cur, out)
    ELSE IF ev[k].pos # pos
         THEN SweepEvents(ev, k + 1, ev[k].pos, cur, cur + ev[k].delta,
                          ClosePileupRun(pos, run_v, cur, out))
    ELSE SweepEvents(ev, k + 1, pos, run_v, cur + ev[k].delta, out)

\* pileup_bdg([1.0,], baseline_value = 0)
pileup_bdg(frags) == SweepEvents(SortEvents(EventsOf(frags)), 1, -1, 0, 0, <<>>)

InitPileup ==
    /\ fragments \in UNION {[1..n -> Fragments] : n \in 0..MaxFrags}
    /\ pileup = [built |-> FALSE, runs |-> <<>>]
    /\ pc = Idle /\ files = Idle /\ failed = Idle /\ hmm_model = Idle
    /\ i_open_region = Idle /\ i_background_region = Idle
    /\ i_nucleosomal_region = Idle /\ candidate_bins = Idle
    /\ predicted_proba = Idle /\ states_bed = Idle
    /\ accessible_regions = Idle /\ broadpeak = Idle
    /\ raw = Idle /\ track = Idle
    /\ bdg = Idle /\ peaks = Idle
    /\ options = Idle /\ petrack = Idle /\ fc_bdg = Idle
    /\ training_regions = Idle /\ candidate_regions = Idle

\* line 118
PileupBdg ==
    /\ ~pileup.built
    /\ pileup' = [built |-> TRUE, runs |-> pileup_bdg(fragments)]
    /\ UNCHANGED <<fragments, pipeVars, scoreVars, peakVars, runVars>>

NextPileup == PileupBdg

SpecPileup == InitPileup /\ [][NextPileup]_vars

----------------------------------------------------------------------------
(* SpecRegions: the training regions of stage 3 and the candidate regions of
   stage 5, called on the fold-change track of one chromosome *)

\* Regions.expand(flank): start = max(0, start - flank), end += flank
Expand(regions, flank) ==
    [i \in 1..Len(regions) |->
        [start |-> IF regions[i].start > flank THEN regions[i].start - flank
                   ELSE 0,
         end   |-> regions[i].end + flank]]

RegionBefore(a, b) == a.start < b.start \/ (a.start = b.start /\ a.end < b.end)

RECURSIVE InsertRegion(_, _)
InsertRegion(r, sorted) ==
    IF sorted = <<>> THEN <<r>>
    ELSE IF RegionBefore(r, Head(sorted)) THEN <<r>> \o sorted
    ELSE <<Head(sorted)>> \o InsertRegion(r, Tail(sorted))

RECURSIVE SortRegions(_)
SortRegions(regions) ==
    IF regions = <<>> THEN <<>>
    ELSE InsertRegion(Head(regions), SortRegions(Tail(regions)))

\* coalesce the sorted regions from the k-th on into out: the next region
\* joins the current one when next.start <= current.end
RECURSIVE Coalesce(_, _, _)
Coalesce(sorted, k, out) ==
    IF k > Len(sorted) THEN out
    ELSE IF out # <<>> /\ sorted[k].start <= out[Len(out)].end
    THEN Coalesce(sorted, k + 1,
             [out EXCEPT ![Len(out)].end =
                 IF sorted[k].end > @ THEN sorted[k].end ELSE @])
    ELSE Coalesce(sorted, k + 1, Append(out, sorted[k]))

\* Regions.merge_overlap()
MergeOverlap(regions) == Coalesce(SortRegions(regions), 1, <<>>)

\* Regions.init_from_PeakIO: the intervals of the peaks
RegionsOfPeaks(pk) ==
    [i \in 1..Len(pk) |-> [start |-> pk[i].start, end |-> pk[i].end]]

\* the subsequences of k elements of a sequence
Picks(pk, k) ==
    {[i \in 1..k |-> pk[SetToSeq(S)[i]]] :
        S \in {T \in SUBSET (1..Len(pk)) : Cardinality(T) = k}}

\* line 126
TrainingPeaks(fc, o, minlen) ==
    call_peaks([segs |-> fc, cutoff |-> o.hmm_lower, up_limit |-> o.hmm_upper,
                min_length |-> minlen, max_gap |-> o.hmm_training_flanking])

Doubled(fc) == [i \in 1..Len(fc) |-> [fc[i] EXCEPT !.score = 2 * @]]

\* the mutant calls the candidates above twice hmm_lower
CandidatePeaksMutant(fc, o, minlen) ==
    call_peaks([segs |-> Doubled(fc), cutoff |-> 4 * o.hmm_lower,
                up_limit |-> NoUpLimit,
                min_length |-> minlen, max_gap |-> o.hmm_training_flanking])

\* line 226: cutoff = hmm_lower / 2 and no up_limit; a score v is at least
\* hmm_lower / 2 exactly when 2 v is at least hmm_lower, so the scores are
\* doubled where the code halves the cutoff
CandidatePeaks(fc, o, minlen) ==
    call_peaks([segs |-> Doubled(fc), cutoff |-> o.hmm_lower,
                up_limit |-> NoUpLimit,
                min_length |-> minlen, max_gap |-> o.hmm_training_flanking])

\* the options stage 3 and stage 5 read; no blacklist is given
RegionOptions ==
    [hmm_lower : 0..2, hmm_upper : {1, 3}, hmm_maxTrain : {1, 2},
     hmm_training_flanking : {5, 20}, blacklist : {FALSE}]

InitRegions ==
    /\ pc = "training_set"
    /\ options \in RegionOptions
    /\ fc_bdg \in DrawnSegs
    /\ petrack \in [average_template_length : {10, 30}]
    /\ training_regions = <<>>
    /\ candidate_regions = <<>>
    /\ files = Idle /\ failed = Idle /\ hmm_model = Idle
    /\ i_open_region = Idle /\ i_background_region = Idle
    /\ i_nucleosomal_region = Idle /\ candidate_bins = Idle
    /\ predicted_proba = Idle /\ states_bed = Idle
    /\ accessible_regions = Idle /\ broadpeak = Idle
    /\ raw = Idle /\ track = Idle
    /\ bdg = Idle /\ peaks = Idle
    /\ fragments = Idle /\ pileup = Idle

restOfPipe == <<files, failed, hmm_model, i_open_region, i_background_region,
                i_nucleosomal_region, candidate_bins, predicted_proba,
                states_bed, accessible_regions, broadpeak>>

\* lines 126-139: call the training peaks, pick hmm_maxTrain of them when
\* there are more, expand by the flank and merge
DefineTrainingSet ==
    /\ pc = "training_set"
    /\ LET called == TrainingPeaks(fc_bdg, options,
                                   petrack.average_template_length)
       IN \E picked \in (IF Len(called) > options.hmm_maxTrain
                         THEN Picks(called, options.hmm_maxTrain)
                         ELSE {called}) :
             training_regions' =
                 MergeOverlap(Expand(RegionsOfPeaks(picked),
                                     options.hmm_training_flanking))
    /\ pc' = "candidates"
    /\ UNCHANGED <<options, petrack, fc_bdg, candidate_regions>>
    /\ UNCHANGED <<restOfPipe, scoreVars, peakVars, pileupVars>>

\* lines 226-236: call the candidate peaks, expand by the flank and merge
CallCandidates ==
    /\ pc = "candidates"
    /\ candidate_regions' =
         MergeOverlap(Expand(RegionsOfPeaks(
                                 CandidatePeaks(fc_bdg, options,
                                     petrack.average_template_length)),
                             options.hmm_training_flanking))
    /\ pc' = "regions_done"
    /\ UNCHANGED <<options, petrack, fc_bdg, training_regions>>
    /\ UNCHANGED <<restOfPipe, scoreVars, peakVars, pileupVars>>

NextRegions ==
    \/ DefineTrainingSet
    \/ CallCandidates

SpecRegions == InitRegions /\ [][NextRegions]_vars

----------------------------------------------------------------------------
(* SpecDup: stage 1, the fragment track from the BAM files to the EM *)

\* the fragment locations (start, end) a BAM file may hold
Locations ==
    {[start |-> 0, end |-> 70], [start |-> 0, end |-> 80],
     [start |-> 70, end |-> 150]}

LocBefore(a, b) == a.start < b.start \/ (a.start = b.start /\ a.end < b.end)

RECURSIVE InsertLoc(_, _)
InsertLoc(f, sorted) ==
    IF sorted = <<>> THEN <<f>>
    ELSE IF LocBefore(f, Head(sorted)) THEN <<f>> \o sorted
    ELSE <<Head(sorted)>> \o InsertLoc(f, Tail(sorted))

\* petrack.finalize(): the locations sorted
RECURSIVE SortLocs(_)
SortLocs(locs) ==
    IF locs = <<>> THEN <<>> ELSE InsertLoc(Head(locs), SortLocs(Tail(locs)))

\* petrack.filter_dup(maxnum = 1) on sorted locations: a location equal to
\* the one kept last is dropped
RECURSIVE filter_dup(_, _)
filter_dup(locs, out) ==
    IF locs = <<>> THEN out
    ELSE IF out # <<>> /\ out[Len(out)] = Head(locs)
    THEN filter_dup(Tail(locs), out)
    ELSE filter_dup(Tail(locs), Append(out, Head(locs)))

InitDup ==
    /\ pc = "read"
    /\ options \in [misc_keep_duplicates : BOOLEAN]
    /\ \E built \in UNION {[1..n -> Locations] : n \in 0..MaxFrags} :
          petrack = [built |-> built, locations |-> built]
    /\ fc_bdg = Idle /\ training_regions = Idle /\ candidate_regions = Idle
    /\ files = Idle /\ failed = Idle /\ hmm_model = Idle
    /\ i_open_region = Idle /\ i_background_region = Idle
    /\ i_nucleosomal_region = Idle /\ candidate_bins = Idle
    /\ predicted_proba = Idle /\ states_bed = Idle
    /\ accessible_regions = Idle /\ broadpeak = Idle
    /\ raw = Idle /\ track = Idle
    /\ bdg = Idle /\ peaks = Idle
    /\ fragments = Idle /\ pileup = Idle

\* line 66
Finalize ==
    /\ pc = "read"
    /\ petrack' = [petrack EXCEPT !.locations = SortLocs(@)]
    /\ pc' = "finalized"
    /\ UNCHANGED <<options, fc_bdg, training_regions, candidate_regions>>
    /\ UNCHANGED <<restOfPipe, scoreVars, peakVars, pileupVars>>

\* lines 68-70: if options.misc_keep_duplicates: petrack.filter_dup(maxnum=1)
FilterDuplicates ==
    /\ pc = "finalized"
    /\ petrack' = IF options.misc_keep_duplicates
                  THEN [petrack EXCEPT !.locations = filter_dup(@, <<>>)]
                  ELSE petrack
    /\ pc' = "em"
    /\ UNCHANGED <<options, fc_bdg, training_regions, candidate_regions>>
    /\ UNCHANGED <<restOfPipe, scoreVars, peakVars, pileupVars>>

NextDup ==
    \/ Finalize
    \/ FilterDuplicates

SpecDup == InitDup /\ [][NextDup]_vars

----------------------------------------------------------------------------
(* Properties of the accessible-region records *)

\* the 1-based positions i of states_bed whose labels at i, i+1, i+2 are
\* nuc, open, nuc
NucOpenNuc ==
    {i \in 1..(Len(states_bed) - 2) :
        /\ states_bed[i].label = "nuc"
        /\ states_bed[i + 1].label = "open"
        /\ states_bed[i + 2].label = "nuc"}

AccessibleRan == pc = "done" \/ failed = "accessible"

\* C1: a composite record is emitted for position i exactly when the labels
\* of the intervals i, i+1, i+2 are nuc, open, nuc: there are as many records
\* as such positions, and the n-th record is built from the three intervals
\* of the n-th such position alone, also when two triplets share a
\* nucleosomal interval.
C1_RecordIffTriplet ==
    AccessibleRan =>
        LET pos == SetToSeq(NucOpenNuc)
        IN /\ Len(broadpeak) = Len(pos)
           /\ Len(accessible_regions) = Len(pos)
           /\ \A n \in 1..Len(pos) :
                /\ accessible_regions[n] =
                     <<Tuple(states_bed[pos[n]]), Tuple(states_bed[pos[n] + 1]),
                       Tuple(states_bed[pos[n] + 2])>>
                /\ broadpeak[n].start = Int_(states_bed[pos[n]].start)
                /\ broadpeak[n].end = Int_(states_bed[pos[n] + 2].end)

\* two records from overlapping triplets nuc, open, nuc, open, nuc, while
\* some other triple of intervals gave none
C1_Witness ==
    /\ pc = "done"
    /\ Len(broadpeak) = 2
    /\ Len(states_bed) > 4
    /\ accessible_regions[1][3] = accessible_regions[2][1]

\* C3 as amended: the record of a triplet (left, open, right) starts at the
\* start of left and ends at the end of right, its thick region is the open
\* interval, and it carries one block, which is the open interval: its size
\* is open end - open start and its start is the open start.
C3_RecordFields ==
    AccessibleRan =>
        \A n \in 1..Len(broadpeak) :
            LET left  == accessible_regions[n][1]
                open  == accessible_regions[n][2]
                right == accessible_regions[n][3]
                rec   == broadpeak[n]
            IN /\ rec.start = left[2]
               /\ rec.end = right[3]
               /\ Int_(rec.thickStart) = open[2]
               /\ Int_(rec.thickEnd) = open[3]
               /\ rec.blockNum = 1
               /\ Len(rec.blockSizes) = 1 /\ Len(rec.blockStarts) = 1
               /\ Int_(rec.blockSizes[1]) = open[3] - open[2]
               /\ Int_(rec.blockStarts[1]) = open[2]

\* a record whose open interval is wider than one bin and differs in width
\* from its flanks
C3_Witness ==
    /\ pc = "done"
    /\ \E n \in 1..Len(broadpeak) :
          LET left == accessible_regions[n][1]
              open == accessible_regions[n][2]
          IN /\ open[3] - open[2] > BinSize
             /\ open[3] - open[2] # left[3] - left[2]

\* C3 as claimed: the blocks are the two nucleosomal flanks, one block per
\* flank, of size flank end - flank start.
C3_BlocksAreFlanks ==
    AccessibleRan =>
        \A n \in 1..Len(broadpeak) :
            LET left  == accessible_regions[n][1]
                open  == accessible_regions[n][2]
                right == accessible_regions[n][3]
                rec   == broadpeak[n]
            IN /\ rec.start = left[2]
               /\ rec.end = right[3]
               /\ Int_(rec.thickStart) = open[2]
               /\ Int_(rec.thickEnd) = open[3]
               /\ Len(rec.blockSizes) = 2 /\ Len(rec.blockStarts) = 2
               /\ Int_(rec.blockSizes[1]) = left[3] - left[2]
               /\ Int_(rec.blockSizes[2]) = right[3] - right[2]
               /\ Int_(rec.blockStarts[1]) = left[2]
               /\ Int_(rec.blockStarts[2]) = right[2]

\* C4: the three intervals of a record lie on one chromosome and abut: the
\* left interval ends where the open one starts, and the open one ends where
\* the right one starts.
C4_TripletContiguous ==
    AccessibleRan =>
        \A n \in 1..Len(accessible_regions) :
            LET left  == accessible_regions[n][1]
                open  == accessible_regions[n][2]
                right == accessible_regions[n][3]
            IN /\ left[1] = open[1] /\ open[1] = right[1]
               /\ left[3] = open[2]
               /\ open[3] = right[2]

----------------------------------------------------------------------------
(* Properties of the collapsed intervals *)

CollapseRan == pc \in {"accessible", "done"} \/ failed = "accessible"

\* the bins at which a run of equal labels starts, in order
RunStartsOf(lab) ==
    SetToSeq({a \in 1..Len(lab) : a = 1 \/ lab[a - 1] # lab[a]})

\* C2: the k-th emitted interval is the k-th maximal run of consecutive bins
\* of one arg-max label: it carries that label, starts at the start of the
\* run's first bin and ends at the end (start + bin size) of its last bin,
\* so boundaries fall on the label changes and nowhere else; two intervals
\* emitted one after the other carry different labels.
C2_IntervalsAreRuns ==
    CollapseRan =>
        LET lab == Labels(candidate_bins, predicted_proba, i_open_region,
                          i_nucleosomal_region, i_background_region)
            starts == RunStartsOf(lab)
            RunEnd(k) == IF k = Len(starts) THEN Len(lab) ELSE starts[k + 1] - 1
        IN /\ Len(states_bed) <= Len(starts)
           /\ \A k \in 1..Len(states_bed) :
                /\ states_bed[k].label = lab[starts[k]]
                /\ \A j \in starts[k]..RunEnd(k) : lab[j] = states_bed[k].label
                /\ Int_(states_bed[k].start) = candidate_bins[starts[k]].pos
                /\ Int_(states_bed[k].end)
                      = candidate_bins[RunEnd(k)].pos + BinSize
           /\ \A k \in 1..(Len(states_bed) - 1) :
                states_bed[k].label # states_bed[k + 1].label

\* three intervals, one of them of several bins
C2_Witness ==
    /\ pc = "accessible"
    /\ Len(states_bed) >= 3
    /\ \E k \in 1..Len(states_bed) :
          Int_(states_bed[k].end) - Int_(states_bed[k].start) > BinSize

\* the interval of a row holds the bin: same chromosome, and the bin's
\* [pos, pos + bin size) inside [start, end)
Covers(row, bin) ==
    /\ row.chrom = bin.chrom
    /\ Int_(row.start) <= bin.pos
    /\ bin.pos + BinSize <= Int_(row.end)

BinsCovered(row) ==
    {l \in 1..Len(candidate_bins) : Covers(row, candidate_bins[l])}

\* C12: the emitted intervals tile the bins of each candidate region: every
\* bin lies in exactly one interval; every interval is made of bins of one
\* candidate region and of nothing else (it is as long as its bins together)
\* and so carries the chromosome name of its own bins.
C12_IntervalsTileRegions ==
    CollapseRan =>
        /\ \A l \in 1..Len(candidate_bins) :
              Cardinality({k \in 1..Len(states_bed) :
                              Covers(states_bed[k], candidate_bins[l])}) = 1
        /\ \A k \in 1..Len(states_bed) :
              LET own == BinsCovered(states_bed[k])
              IN /\ own # {}
                 /\ \A l, m \in own :
                       candidate_bins[l].region = candidate_bins[m].region
                 /\ Int_(states_bed[k].end) - Int_(states_bed[k].start)
                       = BinSize * Cardinality(own)

----------------------------------------------------------------------------
(* Properties of the artifact files *)

StageFiles(stage) ==
    CASE stage = "train"      -> {"model"}
      [] stage = "predict"    -> {"predicted"}
      [] stage = "collapse"   -> {"states"}
      [] stage = "accessible" -> {"gapped"}
      [] OTHER                -> {}

\* C6: when the run aborts with an error, no file of the failed stage
\* exists, complete or partial.
C6_NoFileOfFailedStage ==
    pc = "aborted" => \A f \in StageFiles(failed) : files[f] = "absent"

----------------------------------------------------------------------------
(* Properties of the labelling *)

Labelled == i_open_region # -1

\* C5: open is the state whose channel-0 mean is largest, background is the
\* state with the smallest transition probability from the open state, and
\* nucleosomal is the one remaining state.
C5_LabelsAsClaimed ==
    Labelled =>
        /\ \A s \in States :
              hmm_model.means[s][0] <= hmm_model.means[i_open_region][0]
        /\ i_background_region # i_open_region
        /\ \A s \in States \ {i_open_region} :
              hmm_model.transmat[i_open_region][i_background_region]
                 <= hmm_model.transmat[i_open_region][s]
        /\ {i_nucleosomal_region} =
              States \ {i_open_region, i_background_region}

\* C11: the three indices assigned to open, nucleosomal and background are
\* pairwise distinct: the labelling is a permutation of the hidden states.
C11_LabelsArePermutation ==
    Labelled =>
        /\ i_open_region # i_background_region
        /\ i_open_region # i_nucleosomal_region
        /\ i_background_region # i_nucleosomal_region
        /\ {i_open_region, i_nucleosomal_region, i_background_region} = States

----------------------------------------------------------------------------
(* Properties of the score track *)

\* the track built anew from the raw pileups on which only the method and
\* the normalization of tr were selected, in either order
Reselected(r, tr) ==
    LET normed == IF tr.normalization_method = "N" THEN Fresh(r)
                  ELSE ChangeNormalization(Fresh(r), r, tr.normalization_method)
        scored == IF tr.scoring_method = "N" THEN Fresh(r)
                  ELSE ChangeScore(Fresh(r), r, tr.scoring_method)
    IN {IF tr.scoring_method = "N" THEN normed
           ELSE ChangeScore(normed, r, tr.scoring_method),
        IF tr.normalization_method = "N" THEN scored
           ELSE ChangeNormalization(scored, r, tr.normalization_method)}

C9_ScoreIsTreatPerMillion ==
    track.scoring_method = "m" =>
        /\ \A i \in 1..Len(raw) :
              track.score[i] * treat_edm = raw[i].treat * Scale
        /\ raw = test_regions1 => track.score = m_result

\* the test track under method m
C9_Witness ==
    /\ raw = test_regions1
    /\ track.scoring_method = "m"
    /\ track.normalization_method = "N"

\* C9 as claimed: under method m the score of a bin is the larger of its
\* treatment and control values, and the test track scores 10.00, 1.00,
\* 1.50, 0.50, 2.00.
C9_ScoreIsMax ==
    track.scoring_method = "m" =>
        /\ \A i \in 1..Len(raw) :
              track.score[i] =
                 IF track.treat[i] >= track.ctrl[i] THEN track.treat[i]
                 ELSE track.ctrl[i]
        /\ raw = test_regions1 => track.score = m_result

----------------------------------------------------------------------------
(* Properties of call_peaks *)

AboveSegs == {i \in 1..Len(bdg.segs) :
                 bdg.segs[i].score >= bdg.cutoff
                 /\ bdg.segs[i].score <= bdg.up_limit}

\* i and j are above segments with no above segment between them
NextAbove(i, j) ==
    /\ i \in AboveSegs /\ j \in AboveSegs /\ i < j
    /\ \A k \in AboveSegs : ~(i < k /\ k < j)

GapOf(i, j) == SegStart(bdg.segs, j) - bdg.segs[i].end

\* a..b is a merged run: its above segments are chained by gaps <= max_gap
\* and no above segment outside is within max_gap of it
MergedRun(a, b) ==
    /\ a \in AboveSegs /\ b \in AboveSegs /\ a <= b
    /\ \A i, j \in a..b : NextAbove(i, j) => GapOf(i, j) <= bdg.max_gap
    /\ \A i \in 1..Len(bdg.segs) : NextAbove(i, a) => GapOf(i, a) > bdg.max_gap
    /\ \A j \in 1..Len(bdg.segs) : NextAbove(b, j) => GapOf(b, j) > bdg.max_gap

RunPeak(a, b) ==
    [start |-> SegStart(bdg.segs, a),
     end   |-> bdg.segs[b].end,
     score |-> MaxOf({bdg.segs[i].score : i \in AboveSegs \cap (a..b)})]

ExpectedPeaks ==
    {RunPeak(r[1], r[2]) :
        r \in {q \in (1..Len(bdg.segs)) \X (1..Len(bdg.segs)) :
                  /\ MergedRun(q[1], q[2])
                  /\ bdg.segs[q[2]].end - SegStart(bdg.segs, q[1])
                        >= bdg.min_length}}

\* C7: call_peaks returns exactly the merged runs of above segments
\* (cutoff <= score <= up_limit, gaps <= max_gap merged) that are not shorter
\* than min_length, each from its first start to its last end with the
\* largest score of its run, in order; on the p-scored test track with
\* cutoff 0.10, min_length 10 and max_gap 10 these are (0, 60) and
\* (160, 210).
C7_PeaksAreMergedRuns ==
    peaks.called =>
        /\ {peaks.list[k] : k \in 1..Len(peaks.list)} = ExpectedPeaks
        /\ Len(peaks.list) = Cardinality(ExpectedPeaks)
        /\ \A k \in 1..(Len(peaks.list) - 1) :
              peaks.list[k].end < peaks.list[k + 1].start
        /\ bdg = p_track => peaks.list = peak1

\* the peaks of the test track
C7_Witness ==
    /\ peaks.called
    /\ bdg = p_track
    /\ Len(peaks.list) = 2

----------------------------------------------------------------------------
(* Properties of the training and candidate regions *)

Within(t, c) == c.start <= t.start /\ t.end <= c.end

\* C13: with hmm_lower >= 0 and no blacklist, every final training region
\* lies within some final candidate region.
C13_TrainingWithinCandidates ==
    (pc = "regions_done" /\ options.hmm_lower >= 0 /\ ~options.blacklist) =>
        \A i \in 1..Len(training_regions) :
            \E j \in 1..Len(candidate_regions) :
                Within(training_regions[i], candidate_regions[j])

\* a sub-sampled training set whose region is strictly inside a candidate
\* region, on a track with a segment above hmm_upper
C13_Witness ==
    /\ pc = "regions_done"
    /\ Len(TrainingPeaks(fc_bdg, options, petrack.average_template_length))
          > options.hmm_maxTrain
    /\ \E k \in 1..Len(fc_bdg) : fc_bdg[k].score > options.hmm_upper
    /\ \E i \in 1..Len(training_regions) :
          \E j \in 1..Len(candidate_regions) :
              /\ Within(training_regions[i], candidate_regions[j])
              /\ training_regions[i] # candidate_regions[j]

----------------------------------------------------------------------------
(* Properties of the fragment track *)

\* how often a location occurs in a sequence of locations
Count(loc, locs) == Cardinality({i \in 1..Len(locs) : locs[i] = loc})

\* C14: the track that reaches the EM holds every location read at most once
\* when the keep-duplicates option is not set, and every location as often
\* as it was read when the option is set.
C14_DuplicatesRemovedUnlessKept ==
    pc = "em" =>
        \A loc \in Locations :
            Count(loc, petrack.locations) =
                IF options.misc_keep_duplicates
                THEN Count(loc, petrack.built)
                ELSE IF Count(loc, petrack.built) > 0 THEN 1 ELSE 0

----------------------------------------------------------------------------
(* Properties of the pileup track *)

\* the summed weight of the fragments covering position x
Coverage(x) ==
    SumSeq([i \in 1..Len(fragments) |->
              IF fragments[i].start <= x /\ x < fragments[i].end
              THEN fragments[i].weight ELSE 0])

RunStart(k) == IF k = 1 THEN 0 ELSE pileup.runs[k - 1].end

LastEnd == IF pileup.runs = <<>> THEN 0 ELSE pileup.runs[Len(pileup.runs)].end

\* C10: the end positions of the built track increase strictly, the value of
\* every run is the summed weight of the fragments covering each of its
\* positions (and nothing is covered past the last run), and two adjacent
\* runs differ in value; the abutting fragments (0,70), (70,80), (80,150) of
\* weight 1 give the single run of value 1 over [0,150).
C10_PileupRuns ==
    pileup.built =>
        /\ \A k \in 1..Len(pileup.runs) : RunStart(k) < pileup.runs[k].end
        /\ \A k \in 1..Len(pileup.runs) :
              \A x \in RunStart(k)..(pileup.runs[k].end - 1) :
                  Coverage(x) = pileup.runs[k].value
        /\ \A x \in LastEnd..MaxOf(Positions) : Coverage(x) = 0
        /\ \A k \in 1..(Len(pileup.runs) - 1) :
              pileup.runs[k].value # pileup.runs[k + 1].value
        /\ fragments = abutting =>
              pileup.runs = << [end |-> 150, value |-> 1] >>

\* the track of the abutting fragments
C10_Witness ==
    /\ pileup.built
    /\ fragments = abutting
    /\ Len(pileup.runs) = 1

====
